---------------------------- MODULE Spec2Model ----------------------------
(***************************************************************************)
(* Home automation system (src/main.py): the device registry, the device   *)
(* factory and device hierarchy, the schedule builder/director and the     *)
(* dispatch pipeline of the facade.                                        *)
(*                                                                         *)
(* A Python str is modelled as a sequence of one-character strings, so     *)
(* that str.split, str.join, slicing and str.capitalize are computed as    *)
(* Python computes them.  A Python call is modelled by its outcome, a      *)
(* record [exc, val]: exc = "none" and val the returned value, or exc the  *)
(* name of the exception that propagates to the caller.                    *)
(***************************************************************************)
EXTENDS Integers, Sequences, FiniteSets, TLC

VARIABLES
    instance,      \* DeviceController._instance: 0 is None, else a heap address
    heap,          \* heap[a]: device_registry of the DeviceController object at a
    handles,       \* references returned by the DeviceController() calls so far
    phanos,        \* a Phanos object: [cls, lights], lights its _lights list
    builder,       \* ScheduleBuilder.tasks: insertion-ordered dict, <<[key, val]>>
    schedule,      \* ScheduleBuilder.schedule.tasks: the Schedule's list
    added,         \* the Task values passed to add_task_to_builder, in call order
    gets,          \* number of get_schedule calls on the builder so far
    recipe,        \* the Task values a Director recipe feeds its builder
    idx,           \* _execute_schedule_tasks: index of the task being dispatched
    device_name,   \* _execute_schedule_tasks: local device_name
    action,        \* _execute_schedule_tasks: local action
    results,       \* what _execute_schedule_tasks has dispatched in this run
    runs,          \* number of schedules executed so far
    pc,            \* position of the running procedure
    lastOp         \* the last call made: its name, arguments and outcome

vars == <<instance, heap, handles, phanos, builder, schedule, added, gets,
          recipe, idx, device_name, action, results, runs, pc, lastOp>>

ctlVars      == <<instance, heap, handles>>
builderVars  == <<builder, schedule, added, gets>>
pipeVars     == <<recipe, idx, device_name, action, results, runs>>

-----------------------------------------------------------------------------
(* Python values and call outcomes *)

PyStr(s)  == [t |-> "str", v |-> s]
PyList(l) == [t |-> "list", v |-> l]
PyNone    == [t |-> "NoneType", v |-> <<>>]

Ok(v)        == [exc |-> "none", val |-> v]
Raise(e, m)  == [exc |-> e, val |-> PyStr(m)]

-----------------------------------------------------------------------------
(* str methods *)

\* the characters str.split() treats as separators (of those the model uses)
Whitespace == {" ", "\t", "\n"}

RECURSIVE Words(_, _, _)
Words(s, i, cur) ==
    IF i > Len(s) THEN (IF cur = <<>> THEN <<>> ELSE <<cur>>)
    ELSE IF s[i] \in Whitespace
         THEN (IF cur = <<>> THEN <<>> ELSE <<cur>>) \o Words(s, i + 1, <<>>)
         ELSE Words(s, i + 1, Append(cur, s[i]))

\* s.split(): maximal runs of non-whitespace characters
split(s) == Words(s, 1, <<>>)

RECURSIVE Pieces(_, _, _, _)
Pieces(s, sep, i, cur) ==
    IF i > Len(s) THEN <<cur>>
    ELSE IF i + Len(sep) - 1 <= Len(s) /\ SubSeq(s, i, i + Len(sep) - 1) = sep
         THEN <<cur>> \o Pieces(s, sep, i + Len(sep), <<>>)
         ELSE Pieces(s, sep, i + 1, Append(cur, s[i]))

\* s.split(sep): the pieces between the occurrences of sep, left to right
split_sep(s, sep) == Pieces(s, sep, 1, <<>>)

RECURSIVE join(_, _)
\* sep.join(words)
join(sep, words) ==
    IF words = <<>> THEN <<>>
    ELSE IF Len(words) = 1 THEN words[1]
    ELSE words[1] \o sep \o join(sep, Tail(words))

\* seq[lo:hi] for 0 <= lo, 0 <= hi
Slice(seq, lo, hi) ==
    SubSeq(seq, lo + 1, IF hi < Len(seq) THEN hi ELSE Len(seq))

\* seq[:-1]
AllButLast(seq) == SubSeq(seq, 1, Len(seq) - 1)

LowerCase == <<"a","b","c","d","e","f","g","h","i","j","k","l","m","n","o","p","q","r","s","t","u","v","w","x","y","z">>
UpperCase == <<"A","B","C","D","E","F","G","H","I","J","K","L","M","N","O","P","Q","R","S","T","U","V","W","X","Y","Z">>

upper(c) ==
    IF \E i \in 1..Len(LowerCase) : LowerCase[i] = c
    THEN UpperCase[CHOOSE i \in 1..Len(LowerCase) : LowerCase[i] = c]
    ELSE c

lower(c) ==
    IF \E i \in 1..Len(UpperCase) : UpperCase[i] = c
    THEN LowerCase[CHOOSE i \in 1..Len(UpperCase) : UpperCase[i] = c]
    ELSE c

\* s.capitalize(): first character upper-cased, the rest lower-cased
capitalize(s) ==
    [i \in 1..Len(s) |-> IF i = 1 THEN upper(s[i]) ELSE lower(s[i])]

-----------------------------------------------------------------------------
(* The device hierarchy *)

NoDevice        == [cls |-> "NoneType"]
Light           == [cls |-> "Light"]
NamedLight(name, id) == [cls |-> "NamedLight", name |-> name, id |-> id]
CeilingFan      == [cls |-> "CeilingFan"]
SecurityCamera  == [cls |-> "SecurityCamera"]
DoorLock        == [cls |-> "DoorLock"]
AirConditioner  == [cls |-> "AirConditioner"]
SmartThermostat == [cls |-> "SmartThermostat"]
ThermostatAdapter(thermostat) ==
    [cls |-> "ThermostatAdapter", thermostat |-> thermostat]
Phanos(lights)  == [cls |-> "Phanos", lights |-> lights]
StrValue(s)     == [cls |-> "str", v |-> s]

\* the truth value Python gives an object in `if device:`
Truthy(d) ==
    CASE d.cls = "NoneType" -> FALSE
      [] d.cls = "str"      -> d.v # <<>>
      [] OTHER              -> TRUE

Light_operate(a) == <<"L","i","g","h","t"," ","i","s"," ">> \o a \o <<".">>

NamedLight_operate(self, a) ==
    capitalize(self.name) \o <<" ">> \o Light_operate(a)

SmartThermostat_set_temperature(temperature) ==
    <<"T","h","e","r","m","o","s","t","a","t"," ","t","e","m","p","e","r","a","t","u","r","e"," ","s","e","t"," ","t","o"," ">> \o temperature \o <<".">>

\* variant: the slice taken one word early, words[2:4]
ThermostatAdapter_temperature_2_4(a) == join(<<" ">>, Slice(split(a), 2, 4))

\* words[3:5] of action.split(), joined by one space
ThermostatAdapter_temperature(a) == join(<<" ">>, Slice(split(a), 3, 5))

ThermostatAdapter_operate(self, a) ==
    SmartThermostat_set_temperature(ThermostatAdapter_temperature(a))

\* operate of the devices that return one string
Simple_operate(d, a) ==
    CASE d.cls = "Light"             -> Light_operate(a)
      [] d.cls = "NamedLight"        -> NamedLight_operate(d, a)
      [] d.cls = "CeilingFan"        -> <<"C","e","i","l","i","n","g"," ","f","a","n"," ","i","s"," ">> \o a \o <<".">>
      [] d.cls = "SecurityCamera"    ->
             <<"S","e","c","u","r","i","t","y"," ","c","a","m","e","r","a"," ","i","s"," ","n","o","w"," ">> \o a \o <<".">>
      [] d.cls = "DoorLock"          -> <<"T","h","e"," ","d","o","o","r"," ","l","o","c","k"," ","i","s"," ">> \o a \o <<".">>
      [] d.cls = "AirConditioner"    ->
             <<"A","i","r"," ","c","o","n","d","i","t","i","o","n","e","r"," ","i","s"," ">> \o a \o <<".">>
      [] d.cls = "ThermostatAdapter" -> ThermostatAdapter_operate(d, a)

\* variant: the group summary is not appended
Phanos_operate_no_summary(self, a) ==
    [i \in 1..Len(self.lights) |-> Simple_operate(self.lights[i], a)]

\* Phanos.operate: each light's result in list order, then the summary
Phanos_operate(self, a) ==
    [i \in 1..Len(self.lights) |-> Simple_operate(self.lights[i], a)]
        \o << <<"P","h","a","n","o","s"," ","w","i","t","h"," ","a","l","l"," ","l","i","g","h","t","s"," ">> \o a \o <<".">> >>

\* device.operate(action); a str has no operate attribute
operate(d, a) ==
    CASE d.cls = "Phanos" -> Ok(PyList(Phanos_operate(d, a)))
      [] d.cls \in {"str", "NoneType"} ->
             Raise("AttributeError", <<"o","b","j","e","c","t"," ","h","a","s"," ","n","o"," ","a","t","t","r","i","b","u","t","e"," ","'","o","p","e","r","a","t","e","'">>)
      [] OTHER -> Ok(PyStr(Simple_operate(d, a)))

\* Phanos.add_light: self._lights.append(light)
Phanos_add_light(self, light) == Phanos(Append(self.lights, light))

\* Phanos.remove_light: list.remove drops the first element equal to light
\* and raises ValueError when there is none
Phanos_remove_light(self, light) ==
    IF \E i \in 1..Len(self.lights) : self.lights[i] = light
    THEN LET i == CHOOSE k \in 1..Len(self.lights) :
                      /\ self.lights[k] = light
                      /\ \A j \in 1..(k - 1) : self.lights[j] # light
         IN  [self |-> Phanos(SubSeq(self.lights, 1, i - 1)
                              \o SubSeq(self.lights, i + 1, Len(self.lights))),
              res |-> Ok(PyNone)]
    ELSE [self |-> self,
          res |-> Raise("ValueError", <<"l","i","s","t",".","r","e","m","o","v","e","(","x",")",":"," ","x"," ","n","o","t"," ","i","n"," ","l","i","s","t">>)]

-----------------------------------------------------------------------------
(* SmartDeviceFactory *)

RecognizedKinds ==
    { <<"l","i","g","h","t">>, <<"c","e","i","l","i","n","g"," ","f","a","n">>, <<"s","e","c","u","r","i","t","y"," ","c","a","m","e","r","a">>,
      <<"d","o","o","r"," ","l","o","c","k">>, <<"a","i","r"," ","c","o","n","d","i","t","i","o","n","e","r">>, <<"t","h","e","r","m","o","s","t","a","t">>,
      <<"p","h","a","n","o","s">> }

\* the try block of get_device: a device, or ValueError raised
factory_try(kind) ==
    CASE kind = <<"l","i","g","h","t">>           -> Ok(Light)
      [] kind = <<"c","e","i","l","i","n","g"," ","f","a","n">>     -> Ok(CeilingFan)
      [] kind = <<"s","e","c","u","r","i","t","y"," ","c","a","m","e","r","a">> -> Ok(SecurityCamera)
      [] kind = <<"d","o","o","r"," ","l","o","c","k">>       -> Ok(DoorLock)
      [] kind = <<"a","i","r"," ","c","o","n","d","i","t","i","o","n","e","r">> -> Ok(AirConditioner)
      [] kind = <<"t","h","e","r","m","o","s","t","a","t">>      -> Ok(ThermostatAdapter(SmartThermostat))
      [] kind = <<"p","h","a","n","o","s">>          ->
             Ok(Phanos(<< NamedLight(<<"b","l","u","e">>, 1), NamedLight(<<"r","e","d">>, 2),
                          NamedLight(<<"o","r","a","n","g","e">>, 3) >>))
      [] OTHER -> Raise("ValueError", <<"D","e","v","i","c","e"," ","n","a","m","e"," ","i","s"," ","n","o","t"," ","v","a","l","i","d",".">>)

\* variant: the ValueError is not caught
SmartDeviceFactory_get_device_uncaught(kind) == factory_try(kind)

\* get_device: the ValueError is caught and rendered into the returned str
SmartDeviceFactory_get_device(kind) ==
    LET r == factory_try(kind)
    IN  IF r.exc = "ValueError"
        THEN Ok(StrValue(<<"E","r","r","o","r",":"," ">> \o r.val.v))
        ELSE r

-----------------------------------------------------------------------------
(* DeviceController *)

EmptyDict == <<>>

DictSet(d, k, v) == [x \in DOMAIN d \cup {k} |-> IF x = k THEN v ELSE d[x]]

\* variant: device_registry = {} runs on every construction
DeviceController_new_reset(inst, hp) ==
    IF inst = 0
    THEN [instance |-> Len(hp) + 1, heap |-> Append(hp, EmptyDict)]
    ELSE [instance |-> inst, heap |-> [hp EXCEPT ![inst] = EmptyDict]]

\* __new__: the object is created, with an empty registry, only when
\* _instance is None; the result is _instance
DeviceController_new(inst, hp) ==
    IF inst = 0
    THEN [instance |-> Len(hp) + 1, heap |-> Append(hp, EmptyDict)]
    ELSE [instance |-> inst, heap |-> hp]

\* variant: the registry is replaced by the one new entry
add_device_fresh(registry, name, device) ==
    [x \in {name} |-> device]

\* add_device: the registry after self.device_registry[device_name] = device
add_device(registry, name, device) == DictSet(registry, name, device)

\* get_device: self.device_registry[device_name]
get_device(registry, name) ==
    IF name \in DOMAIN registry
    THEN Ok(registry[name])
    ELSE Raise("KeyError", name)

execute_device_operation(registry, name, a) ==
    LET got == get_device(registry, name)
    IN  IF got.exc # "none" THEN got
        ELSE IF Truthy(got.val) THEN operate(got.val, a)
        ELSE Ok(PyStr(<<"I","n","v","a","l","i","d",":"," ","D","e","v","i","c","e"," ","d","o","e","s"," ","n","o","t"," ","e","x","i","s","t",".">>))

-----------------------------------------------------------------------------
(* Task, ScheduleBuilder, Director *)

Task(name, time, a) == [device_name |-> name, time |-> time, action |-> a]

\* the f-string of add_task_to_builder
render_task(t) ==
    <<"A","t"," ">> \o t.time \o <<","," ">> \o t.action \o <<" ">> \o t.device_name

\* variant: every task opens a list of its own
add_task_to_builder_ungrouped(tasks, t) ==
    Append(tasks, [key |-> t.device_name, val |-> <<render_task(t)>>])

\* add_task_to_builder: self.tasks after the call; a new key goes to the end
\* of the dict, the rendered string to the end of the key's list
add_task_to_builder(tasks, t) ==
    LET known == \E i \in 1..Len(tasks) : tasks[i].key = t.device_name
        withKey == IF known THEN tasks
                   ELSE Append(tasks, [key |-> t.device_name, val |-> <<>>])
    IN  [i \in 1..Len(withKey) |->
            IF withKey[i].key = t.device_name
            THEN [key |-> withKey[i].key,
                  val |-> Append(withKey[i].val, render_task(t))]
            ELSE withKey[i]]

RECURSIVE dict_values_flat(_)
\* the strings the two loops of get_schedule visit, in order
dict_values_flat(tasks) ==
    IF tasks = <<>> THEN <<>>
    ELSE tasks[1].val \o dict_values_flat(Tail(tasks))

\* get_schedule: self.schedule.tasks after the call (the Schedule returned
\* is self.schedule itself)
get_schedule(tasks, sched) == sched \o dict_values_flat(tasks)

\* Director.construct_morning_schedule: the tasks it adds
construct_morning_schedule ==
    << Task(<<"s","e","c","u","r","i","t","y","_","c","a","m","e","r","a">>, <<"0","6",":","3","0">>, <<"s","t","a","r","t">>),
       Task(<<"c","e","i","l","i","n","g","_","f","a","n">>, <<"0","7",":","0","0">>, <<"t","u","r","n"," ","o","f","f">>),
       Task(<<"b","e","d","r","o","o","m","_","l","i","g","h","t">>, <<"0","7",":","0","0">>, <<"t","u","r","n"," ","o","f","f">>),
       Task(<<"k","i","t","c","h","e","n","_","l","i","g","h","t">>, <<"0","7",":","3","0">>, <<"t","u","r","n"," ","o","n">>) >>

\* Director.construct_evening_schedule: the tasks it adds
construct_evening_schedule ==
    << Task(<<"s","e","c","u","r","i","t","y","_","c","a","m","e","r","a">>, <<"1","8",":","0","0">>, <<"s","t","o","p"," ","r","e","c","o","r","d","i","n","g">>),
       Task(<<"b","e","d","r","o","o","m","_","l","i","g","h","t">>, <<"1","8",":","3","0">>, <<"t","u","r","n"," ","o","n">>),
       Task(<<"d","i","n","i","n","g","_","r","o","o","m","_","l","i","g","h","t">>, <<"1","8",":","3","0">>, <<"t","u","r","n"," ","o","n">>),
       Task(<<"k","i","t","c","h","e","n","_","l","i","g","h","t">>, <<"1","9",":","0","0">>, <<"t","u","r","n"," ","o","f","f">>),
       Task(<<"t","h","e","r","m","o","s","t","a","t">>, <<"1","9",":","3","0">>, <<"s","e","t"," ","t","e","m","p","e","r","a","t","u","r","e"," ","t","o"," ","2","2"," ","C"," ","o","f">>) >>

\* Director.construct_night_schedule: the tasks it adds
construct_night_schedule ==
    << Task(<<"d","o","o","r","_","l","o","c","k">>, <<"2","1",":","0","0">>, <<"e","n","g","a","g","e">>),
       Task(<<"b","e","d","r","o","o","m","_","l","i","g","h","t">>, <<"2","1",":","3","0">>, <<"d","i","m"," ","t","o"," ","5","0","%">>),
       Task(<<"a","i","r","_","c","o","n","d","i","t","i","o","n","e","r">>, <<"2","1",":","3","0">>, <<"t","u","r","n"," ","o","n">>),
       Task(<<"p","h","a","n","o","s">>, <<"2","2",":","0","0">>, <<"t","u","r","n"," ","o","n">>) >>

-----------------------------------------------------------------------------
(* SmartHomeManagerFacade: parsing a rendered task *)

\* variant: task.split()[0]
task_device_name_first(s) ==
    LET w == split(s)
    IN  IF w = <<>> THEN Raise("IndexError", <<"l","i","s","t"," ","i","n","d","e","x"," ","o","u","t"," ","o","f"," ","r","a","n","g","e">>)
        ELSE Ok(w[1])

\* task.split()[-1]
task_device_name(s) ==
    LET w == split(s)
    IN  IF w = <<>> THEN Raise("IndexError", <<"l","i","s","t"," ","i","n","d","e","x"," ","o","u","t"," ","o","f"," ","r","a","n","g","e">>)
        ELSE Ok(w[Len(w)])

\* variant: the device name is not dropped from the words
extract_action_keep_last(sentence) ==
    LET parts == split_sep(sentence, <<","," ">>)
    IN  IF Len(parts) < 2
        THEN Raise("IndexError", <<"l","i","s","t"," ","i","n","d","e","x"," ","o","u","t"," ","o","f"," ","r","a","n","g","e">>)
        ELSE Ok(join(<<" ">>, split(parts[2])))

\* extract_action: parts[1] of sentence.split(", "), split on whitespace,
\* all but the last word joined by one space
extract_action(sentence) ==
    LET parts == split_sep(sentence, <<","," ">>)
    IN  IF Len(parts) < 2
        THEN Raise("IndexError", <<"l","i","s","t"," ","i","n","d","e","x"," ","o","u","t"," ","o","f"," ","r","a","n","g","e">>)
        ELSE Ok(join(<<" ">>, AllButLast(split(parts[2]))))

-----------------------------------------------------------------------------
(* State shared by the specifications *)

NoOp == [op |-> "none", h |-> 0, name |-> <<>>, act |-> <<>>,
         dev |-> NoDevice, res |-> Ok(PyNone), pre |-> <<>>]

Call(op, h, name, act, dev, res) ==
    [op |-> op, h |-> h, name |-> name, act |-> act, dev |-> dev,
     res |-> res, pre |-> heap]

Init ==
    /\ instance = 0
    /\ heap = <<>>
    /\ handles = <<>>
    /\ phanos = Phanos(<<>>)
    /\ builder = <<>>
    /\ schedule = <<>>
    /\ added = <<>>
    /\ gets = 0
    /\ recipe = [name |-> "none", tasks |-> <<>>]
    /\ idx = 0
    /\ device_name = <<>>
    /\ action = <<>>
    /\ results = <<>>
    /\ runs = 0
    /\ pc = "idle"
    /\ lastOp = NoOp

-----------------------------------------------------------------------------
(* Specification Spec: the registry, driven by any client *)

MaxHandles == 2

CtlNames   == { <<"t","h","e","r","m","o","s","t","a","t">>, <<"p","h","a","n","o","s">>, <<"g","a","r","a","g","e","_","d","o","o","r">> }
CtlKinds   == { <<"l","i","g","h","t">>, <<"t","h","e","r","m","o","s","t","a","t">>, <<"p","h","a","n","o","s">>, <<"b","o","g","u","s">> }
CtlDevices == {NoDevice} \cup {SmartDeviceFactory_get_device(k).val : k \in CtlKinds}
CtlActions == { <<"t","u","r","n"," ","o","n">>, <<"s","e","t"," ","t","e","m","p","e","r","a","t","u","r","e"," ","t","o"," ","2","2"," ","C"," ","o","f">> }

\* the (slot, kind) pairs of _setup_devices, in the order of its calls
SetupSlots ==
    << <<<<"s","e","c","u","r","i","t","y","_","c","a","m","e","r","a">>, <<"s","e","c","u","r","i","t","y"," ","c","a","m","e","r","a">>>>,
       <<<<"c","e","i","l","i","n","g","_","f","a","n">>, <<"c","e","i","l","i","n","g"," ","f","a","n">>>>,
       <<<<"b","e","d","r","o","o","m","_","l","i","g","h","t">>, <<"l","i","g","h","t">>>>,
       <<<<"k","i","t","c","h","e","n","_","l","i","g","h","t">>, <<"l","i","g","h","t">>>>,
       <<<<"d","i","n","i","n","g","_","r","o","o","m","_","l","i","g","h","t">>, <<"l","i","g","h","t">>>>,
       <<<<"d","o","o","r","_","l","o","c","k">>, <<"d","o","o","r"," ","l","o","c","k">>>>,
       <<<<"a","i","r","_","c","o","n","d","i","t","i","o","n","e","r">>, <<"a","i","r"," ","c","o","n","d","i","t","i","o","n","e","r">>>>,
       <<<<"t","h","e","r","m","o","s","t","a","t">>, <<"t","h","e","r","m","o","s","t","a","t">>>>,
       <<<<"p","h","a","n","o","s">>, <<"p","h","a","n","o","s">>>> >>

RECURSIVE setup_from(_, _)
setup_from(registry, i) ==
    IF i > Len(SetupSlots) THEN registry
    ELSE setup_from(
             add_device(registry, SetupSlots[i][1],
                        SmartDeviceFactory_get_device(SetupSlots[i][2]).val),
             i + 1)

\* _setup_devices: the registry after its nine add_device calls
setup_devices(registry) == setup_from(registry, 1)

\* DeviceController()
NewController ==
    /\ Len(handles) < MaxHandles
    /\ LET n == DeviceController_new(instance, heap)
       IN  /\ instance' = n.instance
           /\ heap' = n.heap
           /\ handles' = Append(handles, n.instance)
           /\ lastOp' = Call("DeviceController", Len(handles) + 1, <<>>, <<>>,
                             NoDevice, Ok(PyNone))
    /\ UNCHANGED <<phanos, builderVars, pipeVars, pc>>

\* SmartHomeManagerFacade(): DeviceController(), then _setup_devices()
NewFacade ==
    /\ Len(handles) < MaxHandles
    /\ LET n == DeviceController_new(instance, heap)
       IN  /\ instance' = n.instance
           /\ heap' = [n.heap EXCEPT
                         ![n.instance] = setup_devices(n.heap[n.instance])]
           /\ handles' = Append(handles, n.instance)
           /\ lastOp' = Call("SmartHomeManagerFacade", Len(handles) + 1, <<>>,
                             <<>>, NoDevice, Ok(PyNone))
    /\ UNCHANGED <<phanos, builderVars, pipeVars, pc>>

\* controller.add_device(name, d) through handle h
AddDevice(h, name, d) ==
    /\ heap' = [heap EXCEPT ![handles[h]] = add_device(heap[handles[h]], name, d)]
    /\ lastOp' = Call("add_device", h, name, <<>>, d, Ok(PyNone))
    /\ UNCHANGED <<instance, handles, phanos, builderVars, pipeVars, pc>>

\* controller.get_device(name) through handle h
GetDevice(h, name) ==
    /\ lastOp' = Call("get_device", h, name, <<>>, NoDevice,
                      get_device(heap[handles[h]], name))
    /\ UNCHANGED <<ctlVars, phanos, builderVars, pipeVars, pc>>

\* controller.execute_device_operation(name, a) through handle h
ExecuteDeviceOperation(h, name, a) ==
    /\ lastOp' = Call("execute_device_operation", h, name, a, NoDevice,
                      execute_device_operation(heap[handles[h]], name, a))
    /\ UNCHANGED <<ctlVars, phanos, builderVars, pipeVars, pc>>

Next ==
    \/ NewController
    \/ NewFacade
    \/ \E h \in 1..Len(handles), name \in CtlNames, d \in CtlDevices :
           AddDevice(h, name, d)
    \/ \E h \in 1..Len(handles), name \in CtlNames : GetDevice(h, name)
    \/ \E h \in 1..Len(handles), name \in CtlNames, a \in CtlActions :
           ExecuteDeviceOperation(h, name, a)

Spec == Init /\ [][Next]_vars

-----------------------------------------------------------------------------
(* Specification SpecPhanos: a Phanos group, driven by any client *)

MaxLights == 3

\* light objects a client holds; 1 and 3 are two objects with equal names
LightPool == { NamedLight(<<"b","l","u","e">>, 1), NamedLight(<<"r","e","d">>, 2),
               NamedLight(<<"b","l","u","e">>, 3) }

PhanosAddLight(l) ==
    /\ Len(phanos.lights) < MaxLights
    /\ phanos' = Phanos_add_light(phanos, l)
    /\ lastOp' = Call("add_light", 0, <<>>, <<>>, l, Ok(PyNone))
    /\ UNCHANGED <<ctlVars, builderVars, pipeVars, pc>>

PhanosRemoveLight(l) ==
    /\ LET r == Phanos_remove_light(phanos, l)
       IN  /\ phanos' = r.self
           /\ lastOp' = Call("remove_light", 0, <<>>, <<>>, l, r.res)
    /\ UNCHANGED <<ctlVars, builderVars, pipeVars, pc>>

PhanosOperate(a) ==
    /\ lastOp' = Call("operate", 0, <<>>, a, phanos, operate(phanos, a))
    /\ UNCHANGED <<ctlVars, phanos, builderVars, pipeVars, pc>>

NextPhanos ==
    \/ \E l \in LightPool : PhanosAddLight(l)
    \/ \E l \in LightPool : PhanosRemoveLight(l)
    \/ \E a \in CtlActions : PhanosOperate(a)

SpecPhanos == Init /\ [][NextPhanos]_vars

-----------------------------------------------------------------------------
(* Specification SpecFactory: SmartDeviceFactory.get_device on any name *)

MaxKindLen == 3

KindAlphabet == {"l", "i", "g", "h", "t"}

Strs(alphabet, n) == UNION {[1..k -> alphabet] : k \in 0..n}

FactoryKinds ==
    RecognizedKinds
        \cup { <<"b","o","g","u","s">>, <<"L","i","g","h","t">>, <<"l","i","g","h","t"," ">>, <<"d","o","o","r","_","l","o","c","k">> }
        \cup Strs(KindAlphabet, MaxKindLen)

FactoryGetDevice(kind) ==
    /\ lastOp' = Call("SmartDeviceFactory.get_device", 0, kind, <<>>, NoDevice,
                      SmartDeviceFactory_get_device(kind))
    /\ UNCHANGED <<ctlVars, phanos, builderVars, pipeVars, pc>>

NextFactory == \E kind \in FactoryKinds : FactoryGetDevice(kind)

SpecFactory == Init /\ [][NextFactory]_vars

-----------------------------------------------------------------------------
(* Specification SpecBuilder: one ScheduleBuilder, driven by any client *)

MaxTasks == 3
MaxGets  == 2

BuilderTasks ==
    { Task(<<"f","a","n">>, <<"0","7",":","0","0">>, <<"t","u","r","n"," ","o","f","f">>),
      Task(<<"l","i","g","h","t">>, <<"0","7",":","3","0">>, <<"t","u","r","n"," ","o","n">>),
      Task(<<"f","a","n">>, <<"0","8",":","0","0">>, <<"t","u","r","n"," ","o","n">>),
      Task(<<"l","o","c","k">>, <<"2","1",":","0","0">>, <<"e","n","g","a","g","e">>) }

BuilderAdd(t) ==
    /\ Len(added) < MaxTasks
    /\ builder' = add_task_to_builder(builder, t)
    /\ added' = Append(added, t)
    /\ lastOp' = Call("add_task_to_builder", 0, t.device_name, t.action,
                      NoDevice, Ok(PyNone))
    /\ UNCHANGED <<ctlVars, phanos, schedule, gets, pipeVars, pc>>

BuilderGet ==
    /\ gets < MaxGets
    /\ schedule' = get_schedule(builder, schedule)
    /\ gets' = gets + 1
    /\ lastOp' = Call("get_schedule", 0, <<>>, <<>>, NoDevice,
                      Ok(PyList(get_schedule(builder, schedule))))
    /\ UNCHANGED <<ctlVars, phanos, builder, added, pipeVars, pc>>

NextBuilder ==
    \/ \E t \in BuilderTasks : BuilderAdd(t)
    \/ BuilderGet

SpecBuilder == Init /\ [][NextBuilder]_vars

-----------------------------------------------------------------------------
(* Specifications SpecFacade and SpecPipe: a SmartHomeManagerFacade that     *)
(* builds a schedule and executes it, one statement of                       *)
(* _execute_schedule_tasks at a time.  create_and_execute_schedules builds   *)
(* its three schedules, each with a builder of its own, and executes         *)
(* them; a schedule here is executed right after it is built, which          *)
(* changes nothing it reads.  An exception leaves the loop and ends the      *)
(* program (pc = "crashed").                                                 *)

MaxRuns == 2

\* the state after manager = SmartHomeManagerFacade()
InitFacade ==
    /\ instance = 1
    /\ heap = << setup_devices(EmptyDict) >>
    /\ handles = <<1>>
    /\ phanos = Phanos(<<>>)
    /\ builder = <<>>
    /\ schedule = <<>>
    /\ added = <<>>
    /\ gets = 0
    /\ recipe = [name |-> "none", tasks |-> <<>>]
    /\ idx = 0
    /\ device_name = <<>>
    /\ action = <<>>
    /\ results = <<>>
    /\ runs = 0
    /\ pc = "ready"
    /\ lastOp = NoOp

\* builder = ScheduleBuilder() of a recipe
Construct(name, tasks) ==
    /\ pc = "ready"
    /\ builder' = <<>>
    /\ schedule' = <<>>
    /\ added' = <<>>
    /\ gets' = 0
    /\ recipe' = [name |-> name, tasks |-> tasks]
    /\ idx' = 0
    /\ results' = <<>>
    /\ pc' = "adding"
    /\ lastOp' = Call("ScheduleBuilder", 0, <<>>, <<>>, NoDevice, Ok(PyNone))
    /\ UNCHANGED <<ctlVars, phanos, device_name, action, runs>>

Recipes ==
    { [name |-> "morning", tasks |-> construct_morning_schedule],
      [name |-> "evening", tasks |-> construct_evening_schedule],
      [name |-> "night", tasks |-> construct_night_schedule] }

ConstructRecipe(r) ==
    /\ runs < MaxRuns
    /\ Construct(r.name, r.tasks)

\* the recipe's next builder.add_task_to_builder(Task(...))
AddTask ==
    /\ pc = "adding"
    /\ Len(added) < Len(recipe.tasks)
    /\ LET t == recipe.tasks[Len(added) + 1]
       IN  /\ builder' = add_task_to_builder(builder, t)
           /\ added' = Append(added, t)
           /\ lastOp' = Call("add_task_to_builder", 0, t.device_name, t.action,
                             NoDevice, Ok(PyNone))
    /\ UNCHANGED <<ctlVars, phanos, schedule, gets, pipeVars, pc>>

\* return builder.get_schedule(), and the loop over schedule.tasks starts
GetSchedule ==
    /\ pc = "adding"
    /\ Len(added) = Len(recipe.tasks)
    /\ schedule' = get_schedule(builder, schedule)
    /\ gets' = gets + 1
    /\ idx' = 1
    /\ pc' = IF get_schedule(builder, schedule) = <<>> THEN "ready" ELSE "split"
    /\ runs' = IF get_schedule(builder, schedule) = <<>> THEN runs + 1 ELSE runs
    /\ lastOp' = Call("get_schedule", 0, <<>>, <<>>, NoDevice,
                      Ok(PyList(get_schedule(builder, schedule))))
    /\ UNCHANGED <<ctlVars, phanos, builder, added, recipe, device_name,
                   action, results>>

\* device_name = task.split()[-1]
SplitTask ==
    /\ pc = "split"
    /\ LET r == task_device_name(schedule[idx])
       IN  /\ device_name' = IF r.exc = "none" THEN r.val ELSE device_name
           /\ pc' = IF r.exc = "none" THEN "extract" ELSE "crashed"
           /\ lastOp' = Call("split", 0, schedule[idx], <<>>, NoDevice, r)
    /\ UNCHANGED <<ctlVars, phanos, builderVars, recipe, idx, action, results,
                   runs>>

\* action = self.extract_action(task)
ExtractAction ==
    /\ pc = "extract"
    /\ LET r == extract_action(schedule[idx])
       IN  /\ action' = IF r.exc = "none" THEN r.val ELSE action
           /\ pc' = IF r.exc = "none" THEN "dispatch" ELSE "crashed"
           /\ lastOp' = Call("extract_action", 0, schedule[idx], <<>>,
                             NoDevice, r)
    /\ UNCHANGED <<ctlVars, phanos, builderVars, recipe, idx, device_name,
                   results, runs>>

\* print(self.controller.execute_device_operation(device_name, action))
Dispatch ==
    /\ pc = "dispatch"
    /\ LET r == execute_device_operation(heap[handles[1]], device_name, action)
           last == idx = Len(schedule)
       IN  /\ results' = Append(results, [device_name |-> device_name,
                                          action |-> action, res |-> r])
           /\ pc' = IF r.exc # "none" THEN "crashed"
                    ELSE IF last THEN "ready" ELSE "split"
           /\ idx' = IF r.exc = "none" /\ ~last THEN idx + 1 ELSE idx
           /\ runs' = IF r.exc = "none" /\ last THEN runs + 1 ELSE runs
           /\ lastOp' = Call("execute_device_operation", 1, device_name,
                             action, NoDevice, r)
    /\ UNCHANGED <<ctlVars, phanos, builderVars, recipe, device_name, action>>

NextFacade ==
    \/ \E r \in Recipes : ConstructRecipe(r)
    \/ AddTask
    \/ GetSchedule
    \/ SplitTask
    \/ ExtractAction
    \/ Dispatch

SpecFacade == InitFacade /\ [][NextFacade]_vars

\* SpecPipe: one Task of any content goes through the builder and the
\* dispatcher

MaxActionLen == 4
MaxWords     == 5

ActionAlphabet == {"a", " ", ",", "\t"}
PipeIds        == { <<"f","a","n">>, <<"a">> }
PipeTimes      == { <<"0","7",":","0","0">>, <<"7",","," ","3","0">>, <<",">> }
ThermoWords    == { <<"2","2">>, <<"C">>, <<"t","o">> }

RoundTripTasks ==
    { Task(d, tm, a) : d \in PipeIds, tm \in PipeTimes,
                       a \in Strs(ActionAlphabet, MaxActionLen) }

EveningThermostatTask == construct_evening_schedule[5]

ThermostatTasks ==
    { Task(<<"t","h","e","r","m","o","s","t","a","t">>, <<"1","9",":","3","0">>, join(<<" ">>, ws)) :
          ws \in Strs(ThermoWords, MaxWords) }
        \cup { EveningThermostatTask }

SubmitTask(t) ==
    /\ runs = 0
    /\ Construct("task", <<t>>)

NextPipe ==
    \/ \E t \in RoundTripTasks \cup ThermostatTasks : SubmitTask(t)
    \/ AddTask
    \/ GetSchedule
    \/ SplitTask
    \/ ExtractAction
    \/ Dispatch

SpecPipe == InitFacade /\ [][NextPipe]_vars

-----------------------------------------------------------------------------
(* Claims about the registry (Spec) *)

Sentinel == <<"I","n","v","a","l","i","d",":"," ","D","e","v","i","c","e"," ","d","o","e","s"," ","n","o","t"," ","e","x","i","s","t",".">>

\* the registry the last call saw, and the one it left
PreRegistry  == lastOp.pre[handles[lastOp.h]]
PostRegistry == heap[handles[lastOp.h]]

\* C1 (as claimed): execute_device_operation on a device id absent from the
\* registry returns the sentinel "Invalid: Device does not exist." and
\* raises nothing.
C1_AbsentIdReturnsSentinel ==
    (/\ lastOp.op = "execute_device_operation"
     /\ lastOp.name \notin DOMAIN PreRegistry)
        => lastOp.res = Ok(PyStr(Sentinel))

\* C4: the registry changes only through add_device.  add_device(id, d)
\* makes get_device(id) return d, overwriting an earlier entry, and leaves
\* every other entry as it was; get_device and execute_device_operation
\* leave the whole mapping as it was, whether they return or raise.
C4_RegistryFrame ==
    /\ lastOp.op \in {"get_device", "execute_device_operation"}
           => heap = lastOp.pre
    /\ (lastOp.op \notin {"add_device", "SmartHomeManagerFacade"}
            /\ lastOp.pre # <<>>)
           => heap = lastOp.pre
    /\ lastOp.op = "add_device" =>
           /\ get_device(PostRegistry, lastOp.name) = Ok(lastOp.dev)
           /\ DOMAIN PostRegistry = DOMAIN PreRegistry \cup {lastOp.name}
           /\ \A k \in DOMAIN PreRegistry \ {lastOp.name} :
                  PostRegistry[k] = PreRegistry[k]

\* C4 witness: add_device has overwritten an entry with a different device
\* while another entry was present.
C4_Witness ==
    /\ lastOp.op = "add_device"
    /\ lastOp.name \in DOMAIN PreRegistry
    /\ PreRegistry[lastOp.name] # lastOp.dev
    /\ DOMAIN PreRegistry \ {lastOp.name} # {}

\* C5: every DeviceController() after the first returns the same instance
\* and does not reset device_registry, so a device registered through one
\* handle is seen through every other handle.
C5_ConstructOnce ==
    /\ \A i, j \in 1..Len(handles) : handles[i] = handles[j]
    /\ (lastOp.op = "DeviceController" /\ lastOp.pre # <<>>)
           => heap = lastOp.pre
    /\ (lastOp.op = "SmartHomeManagerFacade" /\ lastOp.pre # <<>>)
           => \A k \in DOMAIN PreRegistry :
                  /\ k \in DOMAIN PostRegistry
                  /\ (\A i \in 1..Len(SetupSlots) : SetupSlots[i][1] # k)
                         => PostRegistry[k] = PreRegistry[k]
    /\ lastOp.op = "add_device" =>
           \A j \in 1..Len(handles) :
               get_device(heap[handles[j]], lastOp.name) = Ok(lastOp.dev)

\* C5 witness: a second DeviceController() was made after a device had been
\* registered through the first handle.
C5_Witness ==
    /\ lastOp.op = "DeviceController"
    /\ Len(handles) = 2
    /\ DOMAIN heap[handles[2]] # {}

-----------------------------------------------------------------------------
(* Claims about the Phanos group (SpecPhanos) *)

\* C7: operate(action) on a Phanos returns children + 1 strings: each
\* child's operate(action) in the children's insertion order, then one
\* group summary.
C7_PhanosOperate ==
    lastOp.op = "operate" =>
        /\ lastOp.res.exc = "none"
        /\ lastOp.res.val.t = "list"
        /\ LET out == lastOp.res.val.v
               n   == Len(phanos.lights)
           IN  /\ Len(out) = n + 1
               /\ \A i \in 1..n :
                      out[i] = operate(phanos.lights[i], lastOp.act).val.v
               /\ out[n + 1] =
                      <<"P","h","a","n","o","s"," ","w","i","t","h"," ","a","l","l"," ","l","i","g","h","t","s"," ">> \o lastOp.act \o <<".">>

\* C7 witness: red was added, then the second blue light, and the group was
\* told to turn on.
C7_Witness ==
    /\ lastOp.op = "operate"
    /\ phanos.lights = << NamedLight(<<"r","e","d">>, 2), NamedLight(<<"b","l","u","e">>, 3) >>
    /\ lastOp.res.val.v = << <<"R","e","d"," ","L","i","g","h","t"," ","i","s"," ","t","u","r","n"," ","o","n",".">>,
                             <<"B","l","u","e"," ","L","i","g","h","t"," ","i","s"," ","t","u","r","n"," ","o","n",".">>,
                             <<"P","h","a","n","o","s"," ","w","i","t","h"," ","a","l","l"," ","l","i","g","h","t","s"," ","t","u","r","n"," ","o","n",".">> >>

-----------------------------------------------------------------------------
(* Claims about the factory (SpecFactory) *)

\* C6: get_device on a name outside the recognized kinds raises nothing and
\* returns the error value, the str "Error: Device name is not valid.".
C6_UnknownKindIsErrorValue ==
    (/\ lastOp.op = "SmartDeviceFactory.get_device"
     /\ lastOp.name \notin RecognizedKinds)
        => /\ lastOp.res.exc = "none"
           /\ lastOp.res.val = StrValue(<<"E","r","r","o","r",":"," ","D","e","v","i","c","e"," ","n","a","m","e"," ","i","s"," ","n","o","t"," ","v","a","l","i","d",".">>)

\* C6 witness: the factory was asked for "bogus".
C6_Witness ==
    /\ lastOp.op = "SmartDeviceFactory.get_device"
    /\ lastOp.name = <<"b","o","g","u","s">>
    /\ lastOp.res.exc = "none"

-----------------------------------------------------------------------------
(* Claims about the ScheduleBuilder (SpecBuilder) *)

RECURSIVE FirstSeen(_, _)
\* the device names of ts in the order of their first occurrence
FirstSeen(ts, seen) ==
    IF ts = <<>> THEN <<>>
    ELSE IF ts[1].device_name \in seen THEN FirstSeen(Tail(ts), seen)
    ELSE <<ts[1].device_name>>
             \o FirstSeen(Tail(ts), seen \cup {ts[1].device_name})

RECURSIVE RenderedFor(_, _)
\* the instruction strings of the tasks of ts for device d, in the order of ts
RenderedFor(ts, d) ==
    IF ts = <<>> THEN <<>>
    ELSE (IF ts[1].device_name = d
          THEN << <<"A","t"," ">> \o ts[1].time \o <<","," ">> \o ts[1].action
                      \o <<" ">> \o d >>
          ELSE <<>>) \o RenderedFor(Tail(ts), d)

RECURSIVE GroupsOf(_, _)
GroupsOf(ts, names) ==
    IF names = <<>> THEN <<>>
    ELSE RenderedFor(ts, names[1]) \o GroupsOf(ts, Tail(names))

Grouped(ts) == GroupsOf(ts, FirstSeen(ts, {}))

\* C2: on a fresh builder, any add_task_to_builder calls followed by one
\* get_schedule return the rendered strings grouped by device id: groups in
\* the order the ids were first added, each group in the order of the adds.
C2_GroupedFirstSeen ==
    (lastOp.op = "get_schedule" /\ gets = 1) =>
        /\ lastOp.res.val.v = Grouped(added)
        /\ schedule = Grouped(added)

\* C2 witness: tasks for fan, light, fan were added and the schedule built.
C2_Witness ==
    /\ lastOp.op = "get_schedule"
    /\ gets = 1
    /\ added = << Task(<<"f","a","n">>, <<"0","7",":","0","0">>, <<"t","u","r","n"," ","o","f","f">>),
                  Task(<<"l","i","g","h","t">>, <<"0","7",":","3","0">>, <<"t","u","r","n"," ","o","n">>),
                  Task(<<"f","a","n">>, <<"0","8",":","0","0">>, <<"t","u","r","n"," ","o","n">>) >>
    /\ schedule = << <<"A","t"," ","0","7",":","0","0",","," ","t","u","r","n"," ","o","f","f"," ","f","a","n">>, <<"A","t"," ","0","8",":","0","0",","," ","t","u","r","n"," ","o","n"," ","f","a","n">>,
                     <<"A","t"," ","0","7",":","3","0",","," ","t","u","r","n"," ","o","n"," ","l","i","g","h","t">> >>

\* C10 (as claimed): after any add_task_to_builder and get_schedule calls,
\* the schedule get_schedule returns holds exactly one rendered string per
\* task added so far.
C10_OneStringPerTask ==
    lastOp.op = "get_schedule" =>
        /\ Len(lastOp.res.val.v) = Len(added)
        /\ \A i \in 1..Len(added) :
               \E j \in 1..Len(lastOp.res.val.v) :
                   lastOp.res.val.v[j] = render_task(added[i])

-----------------------------------------------------------------------------
(* Claims about the facade (SpecFacade) *)

\* C9: executing the night schedule against the registry _setup_devices
\* filled gives exactly 4 dispatch results, for door_lock, bedroom_light,
\* air_conditioner and phanos in this order, each from a successful lookup.
C9_NightRun ==
    recipe.name = "night" =>
        /\ pc # "crashed"
        /\ \A i \in 1..Len(results) :
               /\ results[i].device_name \in DOMAIN heap[handles[1]]
               /\ results[i].res.exc = "none"
        /\ (pc = "ready" /\ runs > 0) =>
               [i \in 1..Len(results) |-> results[i].device_name]
                   = << <<"d","o","o","r","_","l","o","c","k">>, <<"b","e","d","r","o","o","m","_","l","i","g","h","t">>,
                        <<"a","i","r","_","c","o","n","d","i","t","i","o","n","e","r">>, <<"p","h","a","n","o","s">> >>

\* C9 witness: the night run is over and its last result is the group's.
C9_Witness ==
    /\ recipe.name = "night"
    /\ pc = "ready"
    /\ Len(results) = 4
    /\ results[1].res.val.v = <<"T","h","e"," ","d","o","o","r"," ","l","o","c","k"," ","i","s"," ","e","n","g","a","g","e",".">>
    /\ results[2].res.val.v = <<"L","i","g","h","t"," ","i","s"," ","d","i","m"," ","t","o"," ","5","0","%",".">>
    /\ results[4].res.val.v = << <<"B","l","u","e"," ","L","i","g","h","t"," ","i","s"," ","t","u","r","n"," ","o","n",".">>,
                                 <<"R","e","d"," ","L","i","g","h","t"," ","i","s"," ","t","u","r","n"," ","o","n",".">>,
                                 <<"O","r","a","n","g","e"," ","L","i","g","h","t"," ","i","s"," ","t","u","r","n"," ","o","n",".">>,
                                 <<"P","h","a","n","o","s"," ","w","i","t","h"," ","a","l","l"," ","l","i","g","h","t","s"," ","t","u","r","n"," ","o","n",".">> >>

-----------------------------------------------------------------------------
(* Claims about the builder-to-dispatcher round trip (SpecPipe) *)

NoSpace(s)    == \A i \in 1..Len(s) : s[i] \notin Whitespace
HasCommaSpace(s) ==
    \E i \in 1..(Len(s) - 1) : s[i] = "," /\ s[i + 1] = " "

\* what C3 asks of the Task: a one-word device id, an action of two or
\* more words that does not end in whitespace
C3_Claimed(t) ==
    /\ t.device_name # <<>>
    /\ NoSpace(t.device_name)
    /\ Len(split(t.action)) >= 2
    /\ t.action[Len(t.action)] \notin Whitespace

\* the words of the action are separated by one space each
SingleSpaced(a) ==
    /\ a[1] \notin Whitespace
    /\ \A i \in 1..Len(a) : a[i] \in Whitespace =>
           (a[i] = " " /\ a[i + 1] \notin Whitespace)

\* both locals of the loop body are set for the task
Parsed == recipe.name = "task" /\ pc = "dispatch"

\* C3 (as claimed): for a Task with a one-word device id and a multi-word
\* action without trailing whitespace, parsing the rendered string gives
\* back the device id and the action phrase.
C3_RoundTrip_AsClaimed ==
    (Parsed /\ C3_Claimed(recipe.tasks[1])) =>
        /\ device_name = recipe.tasks[1].device_name
        /\ action = recipe.tasks[1].action

\* C3 (amended): the same, for a Task whose action has its words separated
\* by single spaces, holds no ", " and does not end in a comma, and whose
\* time label holds no ", ".
C3_RoundTrip ==
    (/\ Parsed
     /\ C3_Claimed(recipe.tasks[1])
     /\ SingleSpaced(recipe.tasks[1].action)
     /\ ~HasCommaSpace(recipe.tasks[1].action)
     /\ recipe.tasks[1].action[Len(recipe.tasks[1].action)] # ","
     /\ ~HasCommaSpace(recipe.tasks[1].time)) =>
        /\ device_name = recipe.tasks[1].device_name
        /\ action = recipe.tasks[1].action

\* C3 witness: the two-word action "a ,a" came back.
C3_Witness ==
    /\ Parsed
    /\ recipe.tasks[1] = Task(<<"f","a","n">>, <<"0","7",":","0","0">>, <<"a"," ",",","a">>)
    /\ device_name = <<"f","a","n">>
    /\ action = <<"a"," ",",","a">>

\* the words at positions 3 and 4 (from 0) of a, those there are, joined by
\* one space
Words3And4(a) ==
    LET w == split(a)
    IN  IF Len(w) >= 5 THEN w[4] \o <<" ">> \o w[5]
        ELSE IF Len(w) = 4 THEN w[4]
        ELSE <<>>

\* C8: the thermostat sets the temperature to the words at positions 3 and
\* 4 of the action dispatched to it; the evening recipe's thermostat task
\* ends in "Thermostat temperature set to 22 C.".
C8_ThermostatWords ==
    (/\ recipe.name = "task"
     /\ Len(results) = 1
     /\ results[1].device_name = <<"t","h","e","r","m","o","s","t","a","t">>) =>
        /\ results[1].res =
               Ok(PyStr(<<"T","h","e","r","m","o","s","t","a","t"," ","t","e","m","p","e","r","a","t","u","r","e"," ","s","e","t"," ","t","o"," ">>
                        \o Words3And4(results[1].action) \o <<".">>))
        /\ recipe.tasks[1] = EveningThermostatTask =>
               /\ results[1].action = <<"s","e","t"," ","t","e","m","p","e","r","a","t","u","r","e"," ","t","o"," ","2","2"," ","C"," ","o","f">>
               /\ results[1].res =
                      Ok(PyStr(<<"T","h","e","r","m","o","s","t","a","t"," ","t","e","m","p","e","r","a","t","u","r","e"," ","s","e","t"," ","t","o"," ","2","2"," ","C",".">>))

\* C8 witness: the evening recipe's thermostat task was dispatched.
C8_Witness ==
    /\ recipe.name = "task"
    /\ recipe.tasks[1] = EveningThermostatTask
    /\ Len(results) = 1
    /\ results[1].device_name = <<"t","h","e","r","m","o","s","t","a","t">>
    /\ results[1].res.val.v = <<"T","h","e","r","m","o","s","t","a","t"," ","t","e","m","p","e","r","a","t","u","r","e"," ","s","e","t"," ","t","o"," ","2","2"," ","C",".">>

=============================================================================
